---- MODULE Spec2Model ----
(***************************************************************************)
(* Minimum-cost maximum-flow engines of the repository:                    *)
(*   - struct mcmf            (src/data/saved_graph_solution_0.cpp)        *)
(*   - MIN_COST_MAX_FLOW      (src/data/saved_graph_solution_1.cpp)        *)
(*   - zkw / relabel / dfs    (src/data/saved_graph_solution_6.cpp)        *)
(* Node and edge indices are 0-based as in the C++ code; a vector is a     *)
(* TLA+ sequence, so element i of a vector is element i + 1 of its         *)
(* sequence.                                                               *)
(***************************************************************************)
EXTENDS Integers, Sequences, FiniteSets, TLC

\* ------------------------------------------------------------------ bounds
\* Number of nodes handed to the constructor mcmf(src, sink, nodes).
nodes == 4
\* Largest capacity / largest cost / largest negated cost a caller passes.
MaxCap == 2
MaxCost == 1
NegCost == 1

\* const long long inf = 1e18 + 5.  TLC's integers are 32 bits wide, so the
\* sentinel is scaled down; it stays larger than every sum of edge costs the
\* bounded networks can produce, which is all the code relies on.
inf == 1000000000

src == 0
sink == nodes - 1
Nodes == 0 .. (nodes - 1)

Min(a, b) == IF a < b THEN a ELSE b

\* ------------------------------------------------------- struct mcmf state
VARIABLES
  g,            \* vector<vector<edge>> g
  dis,          \* vector<long long> dis
  par,          \* vector<int> par
  idx,          \* vector<int> idx
  mincost,      \* local of solve()
  maxflow,      \* local of solve()
  bottleneck,   \* local of solve()
  u,            \* loop cursor of the two chain walks of solve()
  v,            \* loop cursor (edge index) of the two chain walks
  pc,           \* position of the caller / of solve()
  built         \* number of arcs the caller has gone through

vars0 == <<g, dis, par, idx, mincost, maxflow, bottleneck, u, v, pc, built>>

\* ------------------------------------------- MIN_COST_MAX_FLOW state
\* (saved_graph_solution_1.cpp; a name that clashes with one above carries
\* the suffix 1)
VARIABLES
  head,         \* int head[maxn]
  to,           \* int to[maxm], entries 0 .. ppp - 1
  nx,           \* int nx[maxm]
  flow,         \* int flow[maxm]: what is left of the capacity
  cost1,        \* int cost[maxm]
  ppp,          \* int ppp
  dis1,         \* int dis[maxn]
  minflow,      \* int minflow[maxn]
  par1,         \* pair<int, int> par[maxn]
  ans,          \* local of solve()
  p1,           \* local p of solve()
  pc1,          \* position of the caller / of solve()
  built1        \* number of arcs the caller has gone through

vars1 == <<head, to, nx, flow, cost1, ppp, dis1, minflow, par1, ans, p1, pc1, built1>>

\* ------------------------------------------------------- zkw state
\* (saved_graph_solution_6.cpp; a name that clashes with one above carries
\* the suffix 6)
VARIABLES
  e6,           \* Graph e[]: entries 0 .. e_cnt - 1, each (to, cap, cost, next)
  fir,          \* int fir[MAX_N]
  dis6,         \* LL dis[MAX_N]
  vis,          \* int vis[MAX_N]
  tim,          \* int tim
  res6,         \* local res of zkw()
  f6,           \* local f of zkw()
  pc6,          \* position of the caller / of zkw()
  built6,       \* number of arcs the caller has gone through
  calls6        \* history: the Add_Edge / AddEdge calls made so far

vars6 == <<e6, fir, dis6, vis, tim, res6, f6, pc6, built6, calls6>>

\* edge(int v, int rev, long long cap, long long cost): flow(0)
edge(head_, rev, cap, cost) ==
  [v |-> head_, rev |-> rev, cap |-> cap, cost |-> cost, flow |-> 0]

\* g[x][i]
At(G, x, i) == G[x][i + 1]

\* One (directed) pass through the body of add_edge, lines 30-33.
add_edge_directed(G, a, b, cap, cost) ==
  LET _u == edge(b, Len(G[b]), cap, cost)
      _v == edge(a, Len(G[a]), 0, -cost)
      G1 == [G EXCEPT ![a] = Append(@, _u)]
  IN  [G1 EXCEPT ![b] = Append(@, _v)]

\* add_edge(u, v, cap, cost, directed): line 34 recurses once with directed = true.
add_edge(G, a, b, cap, cost, directed) ==
  LET G1 == add_edge_directed(G, a, b, cap, cost)
  IN  IF directed THEN G1 ELSE add_edge_directed(G1, b, a, cap, cost)

\* Mutant of Usable: `<` for `<=`, a saturated edge still counts as usable.
UsableWhenSaturated(e) == ~(e.cap < e.flow)

\* Line 49: `if (e.cap <= e.flow) continue;` -- the edge is usable otherwise.
Usable(e) == ~(e.cap <= e.flow)

\* Mutant of Improves: the first label a node gets is kept (breadth-first
\* search instead of label correction).
ImprovesFirstReach(dv, du, cost) == dv = inf

\* Line 50: `dis[e.v] > dis[u] + e.cost`.
Improves(dv, du, cost) == dv > du + cost

\* Op applied to the value of val.  TLC evaluates an operator's argument
\* again at every use while it evaluates ENABLED; binding the argument to a
\* quantified variable evaluates it once.
Bind(val, Op(_)) == CHOOSE r \in {Op(y) : y \in {val}} : TRUE

\* Lines 47-55: the for loop over g[x], from edge index i on.
\* st = [dis, par, idx, inq, q].
RECURSIVE Relax(_, _, _, _)
RelaxEdge(G, st, x, i) ==
  LET e == At(G, x, i) IN
  IF ~Usable(e) THEN Relax(G, st, x, i + 1)
  ELSE IF Improves(st.dis[e.v], st.dis[x], e.cost)
       THEN LET st1 == [st EXCEPT !.dis[e.v] = st.dis[x] + e.cost,
                                  !.par[e.v] = x,
                                  !.idx[e.v] = i]
                st2 == IF ~st.inq[e.v]
                       THEN [st1 EXCEPT !.inq[e.v] = TRUE,
                                        !.q = Append(@, e.v)]
                       ELSE st1
            IN  Relax(G, st2, x, i + 1)
       ELSE Relax(G, st, x, i + 1)
Relax(G, st, x, i) ==
  IF i >= Len(G[x]) THEN st
  ELSE Bind(st, LAMBDA s : RelaxEdge(G, s, x, i))

\* Lines 43-56: the while loop over the FIFO queue.
RECURSIVE SpfaLoop(_, _)
SpfaPop(G, st) ==
  IF st.q = <<>> THEN st
  ELSE LET x == Head(st.q)
       IN  SpfaLoop(G, Relax(G, [st EXCEPT !.q = Tail(@), !.inq[x] = FALSE], x, 0))
SpfaLoop(G, st) == Bind(st, LAMBDA s : SpfaPop(G, s))

\* bool spfa(): lines 37-57.  par and idx keep their old entries for the
\* nodes this run does not reach.
spfa(G, oldpar, oldidx) ==
  SpfaLoop(G, [dis |-> [x \in Nodes |-> IF x = src THEN 0 ELSE inf],
               par |-> [oldpar EXCEPT ![src] = -1],
               idx |-> oldidx,
               inq |-> [x \in Nodes |-> x = src],
               q   |-> <<src>>])

\* Lines 62-66: the minimum of cap - flow along the predecessor chain.
\* Mutant of Residual: the flow already on the edge is forgotten.
ResidualIgnoringFlow(e) == e.cap

\* Line 65: e.cap - e.flow.
Residual(e) == e.cap - e.flow

RECURSIVE ChainMin(_, _, _, _, _, _)
ChainMin(G, p, ix, a, i, b) ==
  IF a = -1 THEN b
  ELSE ChainMin(G, p, ix, p[a], ix[a], Min(b, Residual(At(G, a, i))))

Bottleneck(G, p, ix) == ChainMin(G, p, ix, p[sink], ix[sink], inf)

\* Mutant of PushFlow: `=` for `+=`.
PushFlowAssign(G, a, i, b) == [G EXCEPT ![a][i + 1].flow = b]

\* Line 69: e.flow += bottleneck, for e = g[a][i].
PushFlow(G, a, i, b) == [G EXCEPT ![a][i + 1].flow = @ + b]

\* The edge line 70 updates: g[e.v][e.rev].
RevNode(e) == e.v
RevIndex(e) == e.rev

\* Line 70: g[e.v][e.rev].flow -= bottleneck, for e = g[a][i].
PushBack(G, a, i, b) ==
  LET e == At(G, a, i)
  IN  [G EXCEPT ![RevNode(e)][RevIndex(e) + 1].flow = @ - b]

\* Mutant of CostOfPath: the path cost is added once, whatever the bottleneck.
CostOfPathPerUnit(b, d) == d

\* Line 72: mincost += bottleneck * dis[sink].
CostOfPath(b, d) == b * d

\* ------------------------------------------------------------ the caller
\* The caller's arcs: a layered network from src to sink, arcs a -> b with
\* a < b <= a + 2, visited in lexicographic order.
ArcSet == {p \in Nodes \X Nodes : p[1] < p[2] /\ p[2] <= p[1] + 2}
ArcKey(p) == p[1] * nodes + p[2]
ArcAt(k) ==
  CHOOSE p \in ArcSet : Cardinality({q \in ArcSet : ArcKey(q) < ArcKey(p)}) = k - 1
NumArcs == Cardinality(ArcSet)
Interior(x) == x # src /\ x # sink

\* Floyd-Warshall over the edges with positive capacity: the caller's
\* obligation that the network has no negative-cost cycle.
EdgeCost(G, a, b) ==
  LET cs == {At(G, a, i).cost : i \in {j \in 0 .. (Len(G[a]) - 1) :
                                         At(G, a, j).v = b /\ Usable(At(G, a, j))}}
  IN  IF cs = {} THEN inf ELSE CHOOSE c \in cs : \A d \in cs : c <= d
RECURSIVE Floyd(_, _)
Floyd(D, k) ==
  IF k = nodes THEN D
  ELSE Floyd([a \in Nodes |-> [b \in Nodes |->
                IF D[a][k] < inf /\ D[k][b] < inf
                THEN Min(D[a][b], D[a][k] + D[k][b])
                ELSE D[a][b]]], k + 1)
NoNegativeCycle(G) ==
  LET D == Floyd([a \in Nodes |-> [b \in Nodes |-> EdgeCost(G, a, b)]], 0)
  IN  \A a \in Nodes : D[a][a] >= 0

Init0 ==
  /\ g = [x \in Nodes |-> <<>>]
  /\ dis = [x \in Nodes |-> 0]
  /\ par = [x \in Nodes |-> 0]
  /\ idx = [x \in Nodes |-> 0]
  /\ mincost = 0
  /\ maxflow = 0
  /\ bottleneck = 0
  /\ u = 0
  /\ v = 0
  /\ pc = "build"
  /\ built = 0

\* main(): F.add_edge(a, b, cap, cost[, directed]) for the next arc.
AddEdge ==
  /\ pc = "build"
  /\ built < NumArcs
  /\ \E cap \in 1 .. MaxCap, cost \in (-NegCost) .. MaxCost, directed \in BOOLEAN :
       LET a == ArcAt(built + 1)[1]
           b == ArcAt(built + 1)[2]
       IN  /\ directed \/ (Interior(a) /\ Interior(b))
           /\ g' = add_edge(g, a, b, cap, cost, directed)
  /\ built' = built + 1
  /\ UNCHANGED <<dis, par, idx, mincost, maxflow, bottleneck, u, v, pc>>

\* main(): F.solve() -- line 60.
StartSolve ==
  /\ pc = "build"
  /\ NoNegativeCycle(g)
  /\ mincost' = 0
  /\ maxflow' = 0
  /\ pc' = "spfa"
  /\ UNCHANGED <<g, dis, par, idx, bottleneck, u, v, built>>

\* Line 61: while (spfa()).
RunSpfa ==
  /\ pc = "spfa"
  /\ LET st == spfa(g, par, idx)
     IN  /\ dis' = st.dis
         /\ par' = st.par
         /\ idx' = st.idx
         /\ pc' = IF st.dis[sink] # inf THEN "bottleneck" ELSE "done"
  /\ UNCHANGED <<g, mincost, maxflow, bottleneck, u, v, built>>

\* Lines 62-66, and the initialisation of the loop of line 67.
ComputeBottleneck ==
  /\ pc = "bottleneck"
  /\ bottleneck' = Bottleneck(g, par, idx)
  /\ u' = par[sink]
  /\ v' = idx[sink]
  /\ pc' = "push"
  /\ UNCHANGED <<g, dis, par, idx, mincost, maxflow, built>>

\* Line 69.
PushForward ==
  /\ pc = "push"
  /\ u # -1
  /\ g' = PushFlow(g, u, v, bottleneck)
  /\ pc' = "pushrev"
  /\ UNCHANGED <<dis, par, idx, mincost, maxflow, bottleneck, u, v, built>>

\* Line 70, and the step `v = idx[u], u = par[u]` of line 67.
PushReverse ==
  /\ pc = "pushrev"
  /\ g' = PushBack(g, u, v, bottleneck)
  /\ v' = idx[u]
  /\ u' = par[u]
  /\ pc' = "push"
  /\ UNCHANGED <<dis, par, idx, mincost, maxflow, bottleneck, built>>

\* Line 72.
Accumulate ==
  /\ pc = "push"
  /\ u = -1
  /\ mincost' = mincost + CostOfPath(bottleneck, dis[sink])
  /\ maxflow' = maxflow + bottleneck
  /\ pc' = "spfa"
  /\ UNCHANGED <<g, dis, par, idx, bottleneck, u, v, built>>

\* ------------------------------------------------- MIN_COST_MAX_FLOW
\* const int INF = 0x3f3f3f3f.
INF1 == 1061109567

\* a[i] of a C array kept as a sequence.
Elem(a, i) == a[i + 1]
\* i ^ 1
Xor1(i) == IF i % 2 = 0 THEN i + 1 ELSE i - 1

\* Line 30: `flow[i] && dis[v] > dis[u] + cost[i]`.
Relaxes1(f, dv, du, c) == f # 0 /\ dv > du + c

\* Lines 28-39: the for loop over the list of x, from edge i on.
\* st = [dis, flag, minflow, par, q].
RECURSIVE Relax1(_, _, _, _, _, _, _)
Relax1(Hto, Hnx, Hflow, Hcost, st, x, i) ==
  IF i = -1 THEN st
  ELSE LET y == Elem(Hto, i)
           st1 == IF Relaxes1(Elem(Hflow, i), st.dis[y], st.dis[x], Elem(Hcost, i))
                  THEN [st EXCEPT
                          !.dis[y] = st.dis[x] + Elem(Hcost, i),
                          !.par[y] = <<x, i>>,
                          !.minflow[y] = Min(st.minflow[x], Elem(Hflow, i)),
                          !.flag[y] = TRUE,
                          !.q = IF st.flag[y] THEN @ ELSE Append(@, y)]
                  ELSE st
       IN  Relax1(Hto, Hnx, Hflow, Hcost, st1, x, Elem(Hnx, i))

\* Lines 24-40: the while loop over the queue.
RECURSIVE SpfaLoop1(_, _, _, _, _, _)
SpfaLoop1(Hhead, Hto, Hnx, Hflow, Hcost, st) ==
  IF st.q = <<>> THEN st
  ELSE LET x == Head(st.q)
           st1 == [st EXCEPT !.q = Tail(@), !.flag[x] = FALSE]
       IN  SpfaLoop1(Hhead, Hto, Hnx, Hflow, Hcost,
                     Relax1(Hto, Hnx, Hflow, Hcost, st1, x, Hhead[x]))

\* bool spfa(int s, int t): lines 16-43.  minflow and par keep their old
\* entries for the nodes this run does not reach.
spfa1(s) ==
  SpfaLoop1(head, to, nx, flow, cost1,
            [dis     |-> [x \in Nodes |-> IF x = s THEN 0 ELSE INF1],
             flag    |-> [x \in Nodes |-> FALSE],
             minflow |-> [minflow EXCEPT ![s] = INF1],
             par     |-> par1,
             q       |-> <<s>>])

\* Line 53: ans += dis[t].
Added1(mf, d) == d

Init1 ==
  /\ head = [x \in Nodes |-> -1]
  /\ to = <<>>
  /\ nx = <<>>
  /\ flow = <<>>
  /\ cost1 = <<>>
  /\ ppp = 0
  /\ dis1 = [x \in Nodes |-> 0]
  /\ minflow = [x \in Nodes |-> 0]
  /\ par1 = [x \in Nodes |-> <<0, 0>>]
  /\ ans = 0
  /\ p1 = 0
  /\ pc1 = "build"
  /\ built1 = 0

\* main(): mcmf.add_edge(a, b, f, c) for the next arc -- lines 57-62.
AddEdge1 ==
  /\ pc1 = "build"
  /\ built1 < NumArcs
  /\ \E f \in 1 .. MaxCap, c \in (-NegCost) .. MaxCost :
       LET a == ArcAt(built1 + 1)[1]
           b == ArcAt(built1 + 1)[2]
       IN  /\ to' = to \o <<b, a>>
           /\ nx' = nx \o <<head[a], head[b]>>
           /\ flow' = flow \o <<f, 0>>
           /\ cost1' = cost1 \o <<c, -c>>
           /\ head' = [head EXCEPT ![a] = ppp, ![b] = ppp + 1]
           /\ ppp' = ppp + 2
  /\ built1' = built1 + 1
  /\ UNCHANGED <<dis1, minflow, par1, ans, p1, pc1>>

\* main(): mcmf.solve(start, tank) -- line 45.
StartSolve1 ==
  /\ pc1 = "build"
  /\ ans' = 0
  /\ pc1' = "spfa"
  /\ UNCHANGED <<head, to, nx, flow, cost1, ppp, dis1, minflow, par1, p1, built1>>

\* Lines 46-47: while (spfa(s, t)) { p = t; ...
RunSpfa1 ==
  /\ pc1 = "spfa"
  /\ LET st == spfa1(src)
     IN  /\ dis1' = st.dis
         /\ minflow' = st.minflow
         /\ par1' = st.par
         /\ pc1' = IF st.dis[sink] = INF1 THEN "done" ELSE "push"
  /\ p1' = sink
  /\ UNCHANGED <<head, to, nx, flow, cost1, ppp, ans, built1>>

\* Lines 48-52: one pass through the body of while (p != s).
PushStep1 ==
  /\ pc1 = "push"
  /\ p1 # src
  /\ LET i == par1[p1][2]
     IN  flow' = [flow EXCEPT ![i + 1] = @ - minflow[sink],
                              ![Xor1(i) + 1] = @ + minflow[sink]]
  /\ p1' = par1[p1][1]
  /\ UNCHANGED <<head, to, nx, cost1, ppp, dis1, minflow, par1, ans, pc1, built1>>

\* Line 53.
Accumulate1 ==
  /\ pc1 = "push"
  /\ p1 = src
  /\ ans' = ans + Added1(minflow[sink], dis1[sink])
  /\ pc1' = "spfa"
  /\ UNCHANGED <<head, to, nx, flow, cost1, ppp, dis1, minflow, par1, p1, built1>>

Next1 ==
  \/ AddEdge1 /\ UNCHANGED <<vars0, vars6>>
  \/ StartSolve1 /\ UNCHANGED <<vars0, vars6>>
  \/ RunSpfa1 /\ UNCHANGED <<vars0, vars6>>
  \/ PushStep1 /\ UNCHANGED <<vars0, vars6>>
  \/ Accumulate1 /\ UNCHANGED <<vars0, vars6>>

\* -------------------------------------------------------------- zkw
\* const LL INF = 1e18, scaled down like inf above.
INF6 == 1000000000
\* The flow limit of the call dfs(S, 1e9), line 78.
DfsLimit == 1000000000

\* Add_Edge(u, v, c, w), lines 13-16: the pair (v, c, w), (u, 0, -w).
\* AddEdge(u, v, c, w), lines 17-20: the pair (v, c, w), (u, c, -w).
\* back is the capacity of the second edge.  Returns [e, fir].
AppendPair(E, F, a, b, c, w, back) ==
  LET E1 == Append(E, [to |-> b, cap |-> c, cost |-> w, next |-> F[a]])
      F1 == [F EXCEPT ![a] = Len(E)]
      E2 == Append(E1, [to |-> a, cap |-> back, cost |-> -w, next |-> F1[b]])
      F2 == [F1 EXCEPT ![b] = Len(E1)]
  IN  [e |-> E2, fir |-> F2]

\* Line 34: `e[i ^ 1].cap && dis[v] > dis[x] + w`.
Relaxes6(c, dv, dx, w) == c # 0 /\ dv > dx + w

\* Lines 32-38: the for loop over the list of x, from edge i on.
\* st = [dis, inq, q].
RECURSIVE Relax6(_, _, _, _)
Relax6(E, st, x, i) ==
  IF i = -1 THEN st
  ELSE LET y == Elem(E, i).to
           w == Elem(E, Xor1(i)).cost
           st1 == IF Relaxes6(Elem(E, Xor1(i)).cap, st.dis[y], st.dis[x], w)
                  THEN [st EXCEPT !.dis[y] = st.dis[x] + w,
                                  !.q = IF st.inq[y] THEN @ ELSE Append(@, y),
                                  !.inq[y] = TRUE]
                  ELSE st
       IN  Relax6(E, st1, x, Elem(E, i).next)

\* Lines 29-40: the while loop over the queue.
RECURSIVE SpfaLoop6(_, _, _)
SpfaLoop6(E, F, st) ==
  IF st.q = <<>> THEN st
  ELSE LET x == Head(st.q)
           st1 == Relax6(E, [st EXCEPT !.q = Tail(@)], x, F[x])
       IN  SpfaLoop6(E, F, [st1 EXCEPT !.inq[x] = FALSE])

\* bool spfa(), lines 25-42: the distances to T.
spfa6(E, F) ==
  SpfaLoop6(E, F, [dis |-> [x \in Nodes |-> IF x = sink THEN 0 ELSE INF6],
                   inq |-> [x \in Nodes |-> x = sink],
                   q   |-> <<sink>>]).dis

\* Lines 46-53: the least dis[v] + cost - dis[x] over the edges with
\* capacity that leave the nodes visited in this round.  Edge j is in the
\* list of node x exactly when its partner j ^ 1 points to x.
Slack(E, D, V, t) ==
  LET ds == {D[Elem(E, i).to] + Elem(E, i).cost - D[Elem(E, Xor1(i)).to] :
               i \in {j \in 0 .. (Len(E) - 1) :
                        /\ V[Elem(E, Xor1(j)).to] = t
                        /\ Elem(E, j).cap # 0
                        /\ V[Elem(E, j).to] # t}}
  IN  IF ds = {} THEN INF6
      ELSE Min(INF6, CHOOSE d \in ds : \A d2 \in ds : d <= d2)

\* bool relabel(), lines 44-58.  Returns [ok, dis].
relabel(E, D, V, t) ==
  LET r == Slack(E, D, V, t)
  IN  IF r = INF6 THEN [ok |-> FALSE, dis |-> D]
      ELSE [ok |-> TRUE, dis |-> [x \in Nodes |-> IF V[x] = t THEN D[x] + r ELSE D[x]]]

\* Line 65: `e[i].cap && dis[x] == dis[v] + w && vis[v] != tim`.
Admissible(c, dx, dv, w, visited) == c # 0 /\ dx = dv + w /\ ~visited

\* int dfs(int x, int f), lines 59-73.  st = [e, vis]; returns
\* [ret, e, vis].  DfsEdges is the for loop from edge i on, with the
\* locals f and res.
RECURSIVE dfs(_, _, _, _, _, _), DfsEdges(_, _, _, _, _, _, _, _)
dfs(F, D, t, x, f, st) ==
  IF x = sink \/ f = 0 THEN [ret |-> f, e |-> st.e, vis |-> st.vis]
  ELSE DfsEdges(F, D, t, x, F[x], f, 0, [st EXCEPT !.vis[x] = t])
DfsEdges(F, D, t, x, i, f, res, st) ==
  IF i = -1 THEN [ret |-> res, e |-> st.e, vis |-> st.vis]
  ELSE LET y == Elem(st.e, i).to
           w == Elem(st.e, i).cost
       IN  IF Admissible(Elem(st.e, i).cap, D[x], D[y], w, st.vis[y] = t)
           THEN LET r == dfs(F, D, t, y, Min(f, Elem(st.e, i).cap), st)
                    d == r.ret
                    E1 == [r.e EXCEPT ![i + 1].cap = @ - d,
                                      ![Xor1(i) + 1].cap = @ + d]
                IN  IF f - d = 0
                    THEN [ret |-> res + d, e |-> E1, vis |-> r.vis]
                    ELSE DfsEdges(F, D, t, x, Elem(E1, i).next, f - d, res + d,
                                  [e |-> E1, vis |-> r.vis])
           ELSE DfsEdges(F, D, t, x, Elem(st.e, i).next, f, res, st)

\* Line 79: `if (dis[S] >= 0) return res;`.
StopsEarly(d) == d >= 0

\* Mutant of Gain: the distance is added once, whatever the flow.
GainPerUnit(d, f) == d

\* Line 80: res += dis[S] * f.
Gain(d, f) == d * f

Init6 ==
  /\ e6 = <<>>
  /\ fir = [x \in Nodes |-> -1]
  /\ dis6 = [x \in Nodes |-> 0]
  /\ vis = [x \in Nodes |-> 0]
  /\ tim = 0
  /\ res6 = 0
  /\ f6 = 0
  /\ pc6 = "build"
  /\ built6 = 0
  /\ calls6 = <<>>

\* main(): Add_Edge(a, b, c, w) for the next arc.
Add_Edge ==
  /\ pc6 = "build"
  /\ built6 < NumArcs
  /\ \E c \in 1 .. MaxCap, w \in (-NegCost) .. MaxCost :
       LET a == ArcAt(built6 + 1)[1]
           b == ArcAt(built6 + 1)[2]
           r == AppendPair(e6, fir, a, b, c, w, 0)
       IN  /\ e6' = r.e
           /\ fir' = r.fir
           /\ calls6' = Append(calls6, [u |-> a, v |-> b, c |-> c, w |-> w, back |-> 0])
  /\ built6' = built6 + 1
  /\ UNCHANGED <<dis6, vis, tim, res6, f6, pc6>>

\* main(): AddEdge(a, b, c, w) for the next arc, between two inner nodes.
AddEdge6 ==
  /\ pc6 = "build"
  /\ built6 < NumArcs
  /\ \E c \in 1 .. MaxCap, w \in 0 .. MaxCost :
       LET a == ArcAt(built6 + 1)[1]
           b == ArcAt(built6 + 1)[2]
           r == AppendPair(e6, fir, a, b, c, w, c)
       IN  /\ Interior(a) /\ Interior(b)
           /\ e6' = r.e
           /\ fir' = r.fir
           /\ calls6' = Append(calls6, [u |-> a, v |-> b, c |-> c, w |-> w, back |-> c])
  /\ built6' = built6 + 1
  /\ UNCHANGED <<dis6, vis, tim, res6, f6, pc6>>

\* zkw(), lines 75-76: spfa(); LL res = 0, f = 0.
StartZkw ==
  /\ pc6 = "build"
  /\ dis6' = spfa6(e6, fir)
  /\ res6' = 0
  /\ f6' = 0
  /\ pc6' = "dfs"
  /\ UNCHANGED <<e6, fir, vis, tim, built6, calls6>>

\* Lines 78-81: one pass through the body of the inner do-while.
DfsRound ==
  /\ pc6 = "dfs"
  /\ tim' = tim + 1
  /\ LET r == dfs(fir, dis6, tim + 1, src, DfsLimit, [e |-> e6, vis |-> vis])
     IN  /\ f6' = r.ret
         /\ e6' = r.e
         /\ vis' = r.vis
         /\ IF StopsEarly(dis6[src])
            THEN /\ pc6' = "return79"
                 /\ res6' = res6
            ELSE /\ res6' = res6 + Gain(dis6[src], r.ret)
                 /\ pc6' = IF r.ret # 0 THEN "dfs" ELSE "relabel"
  /\ UNCHANGED <<fir, dis6, built6, calls6>>

\* Lines 82-83: while (relabel()); return res.
Relabel ==
  /\ pc6 = "relabel"
  /\ LET r == relabel(e6, dis6, vis, tim)
     IN  /\ dis6' = r.dis
         /\ pc6' = IF r.ok THEN "dfs" ELSE "return83"
  /\ UNCHANGED <<e6, fir, vis, tim, res6, f6, built6, calls6>>

Next6 ==
  \/ Add_Edge /\ UNCHANGED <<vars0, vars1>>
  \/ AddEdge6 /\ UNCHANGED <<vars0, vars1>>
  \/ StartZkw /\ UNCHANGED <<vars0, vars1>>
  \/ DfsRound /\ UNCHANGED <<vars0, vars1>>
  \/ Relabel /\ UNCHANGED <<vars0, vars1>>

\* ------------------------------------------- solve() as one operation
\* Lines 67-71 of mcmf::solve: the push along the whole chain.
RECURSIVE PushChain(_, _, _, _, _, _)
PushChain(G, pr, ix, a, i, b) ==
  IF a = -1 THEN G
  ELSE PushChain(PushBack(PushFlow(G, a, i, b), a, i, b), pr, ix, pr[a], ix[a], b)

\* Lines 60-74 of mcmf::solve: the loop, from graph G with mincost = acc.
\* With onlyNegative the loop also ends at the first path whose cost
\* dis[sink] is not negative.
RECURSIVE SolveLoop(_, _, _, _, _)
SolveLoop(G, pr, ix, acc, onlyNegative) ==
  LET st == spfa(G, pr, ix)
      b == Bottleneck(G, st.par, st.idx)
  IN  IF st.dis[sink] = inf \/ (onlyNegative /\ st.dis[sink] >= 0) THEN acc
      ELSE SolveLoop(PushChain(G, st.par, st.idx, st.par[sink], st.idx[sink], b),
                     st.par, st.idx, acc + CostOfPath(b, st.dis[sink]), onlyNegative)

\* The network of the calls cs, built with mcmf::add_edge.  AddEdge gives
\* both directions the capacity c, with costs w and -w.
RECURSIVE BuiltBy(_)
BuiltBy(cs) ==
  IF cs = <<>> THEN [x \in Nodes |-> <<>>]
  ELSE LET k == cs[Len(cs)]
           G == add_edge(BuiltBy(SubSeq(cs, 1, Len(cs) - 1)), k.u, k.v, k.c, k.w, TRUE)
       IN  IF k.back = 0 THEN G ELSE add_edge(G, k.v, k.u, k.back, -k.w, TRUE)

Solve0 ==
  /\ \/ RunSpfa
     \/ ComputeBottleneck
     \/ PushForward
     \/ PushReverse
     \/ Accumulate
  /\ UNCHANGED <<vars1, vars6>>

Next ==
  \/ AddEdge /\ UNCHANGED <<vars1, vars6>>
  \/ StartSolve /\ UNCHANGED <<vars1, vars6>>
  \/ Solve0

vars == <<vars0, vars1, vars6>>
Init == Init0 /\ Init1 /\ Init6
Spec == Init /\ [][Next]_vars

\* Fairness: solve() is a sequential loop that, once called, keeps running.
LiveSpec == Init /\ [][Next]_vars /\ WF_vars(Solve0)

\* ------------------------------------------- add_edge, any arguments
\* The arguments a caller may pass, the contract's or not.
MaxStoreCalls == 2
IndexInputs == -1 .. nodes
CapInputs == -1 .. 1
CostInputs == -1 .. 1
\* What a read of the size of a vector outside g can yield.
GarbageSizes == 0 .. 1

\* add_edge with a or b outside [0, nodes): g[b].size() and the push_back
\* on g[b] (or on g[a]) are out of bounds, which is undefined behaviour.
\* The outcomes kept here: nothing visible changes, or the push_back on the
\* vector that does exist goes through, with the size that was read
\* outside g being any value r.
add_edge_wild(G, a, b, cap, cost, r) ==
  IF a \in Nodes /\ b \notin Nodes
  THEN [G EXCEPT ![a] = Append(@, edge(b, r, cap, cost))]
  ELSE IF a \notin Nodes /\ b \in Nodes
       THEN [G EXCEPT ![b] = Append(@, edge(a, r, 0, -cost))]
       ELSE G

\* One call F.add_edge(a, b, cap, cost, directed).  No argument is checked
\* (lines 28-35).
StoreAddEdge(a, b, cap, cost, directed) ==
  /\ pc = "build"
  /\ built < MaxStoreCalls
  /\ built' = built + 1
  /\ IF a \in Nodes /\ b \in Nodes
     THEN /\ g' = add_edge(g, a, b, cap, cost, directed)
          /\ pc' = pc
     ELSE /\ pc' = "undefined"
          /\ \/ g' = g
             \/ \E r \in GarbageSizes : g' = add_edge_wild(g, a, b, cap, cost, r)
  /\ UNCHANGED <<dis, par, idx, mincost, maxflow, bottleneck, u, v>>
  /\ UNCHANGED <<vars1, vars6>>

\* Calls with both indices in range first, then the others.
StoreNext ==
  \/ \E a \in Nodes, b \in Nodes, cap \in CapInputs,
        cost \in CostInputs, directed \in BOOLEAN :
          StoreAddEdge(a, b, cap, cost, directed)
  \/ \E a \in IndexInputs, b \in IndexInputs, cap \in CapInputs,
        cost \in CostInputs, directed \in BOOLEAN :
          /\ a \notin Nodes \/ b \notin Nodes
          /\ StoreAddEdge(a, b, cap, cost, directed)

StoreSpec == Init /\ [][StoreNext]_vars

\* MIN_COST_MAX_FLOW: a network is built, then solved.
Spec1 == Init /\ [][Next1]_vars

\* zkw: a network is built, then solved.
Spec6 == Init /\ [][Next6]_vars

\* ------------------------------------------------------------- claims
RECURSIVE SumOver(_, _)
SumOver(S, f) ==
  IF S = {} THEN 0
  ELSE LET x == CHOOSE y \in S : TRUE IN f[x] + SumOver(S \ {x}, f)

\* Every stored edge, as (node, index).
AllEdges(G) == {p \in Nodes \X (0 .. (2 * NumArcs)) : p[2] < Len(G[p[1]])}
\* The edges with positive original capacity (the reverse edges have cap 0).
FwdEdges(G) == {p \in AllEdges(G) : At(G, p[1], p[2]).cap > 0}
\* The forward edges of G with what the sums below need of each: N.E the
\* edges, N.out[x] / N.into[x] those that leave / enter node x.
NetOf(G) ==
  LET E == FwdEdges(G)
  IN  [E    |-> E,
       out  |-> [x \in Nodes |-> {p \in E : p[1] = x}],
       into |-> [x \in Nodes |-> {p \in E : At(G, p[1], p[2]).v = x}],
       cap  |-> [p \in E |-> At(G, p[1], p[2]).cap],
       cost |-> [p \in E |-> At(G, p[1], p[2]).cost]]
FlowOf(G) == [p \in FwdEdges(G) |-> At(G, p[1], p[2]).flow]
Outflow(F, N, x) == SumOver(N.out[x], F)
Inflow(F, N, x) == SumOver(N.into[x], F)
ValueOf(F, N) == Outflow(F, N, src) - Inflow(F, N, src)
CostOf(F, N) == SumOver(N.E, [p \in N.E |-> F[p] * N.cost[p]])
Conserved(F, N) ==
  \A x \in Nodes : (x # src /\ x # sink) => Inflow(F, N, x) = Outflow(F, N, x)
\* All assignments of 0 .. cap to the edges of E.
RECURSIVE WithinCapacity(_, _)
WithinCapacity(N, E) ==
  IF E = {} THEN {<<>>}
  ELSE LET p == CHOOSE q \in E : TRUE
       IN  {(p :> k) @@ F : k \in 0 .. N.cap[p], F \in WithinCapacity(N, E \ {p})}
\* All feasible flows of the network: within capacity and conserved.
FeasibleFlows(N) == {F \in WithinCapacity(N, N.E) : Conserved(F, N)}
BetweenAugmentations == pc \in {"spfa", "done"}

\* The nodes of the predecessor chain from x back to src.
RECURSIVE Chain(_)
Chain(x) == IF x = -1 \/ x = src THEN {} ELSE {x} \cup Chain(par[x])

\* C1: after each augmentation of mcmf::solve (and at its return) the flow
\* on the graph has the least total cost among all feasible flows from src
\* to sink that have the same value.
C1_MinCostForValue ==
  BetweenAugmentations =>
    LET N == NetOf(g)
        value == ValueOf(FlowOf(g), N)
        cost == CostOf(FlowOf(g), N)
    IN  \A F \in FeasibleFlows(N) : ValueOf(F, N) = value => CostOf(F, N) >= cost

\* C1 witness: an augmentation has just gone through a reverse edge (it
\* cancelled flow an earlier augmentation had routed).
C1_Witness ==
  /\ pc = "spfa"
  /\ maxflow >= 2
  /\ \E x \in Chain(sink) : At(g, par[x], idx[x]).cap = 0

\* C2 as stated: 0 <= flow <= cap for every stored edge, reverse edges
\* included, in every state.
C2_FlowWithinZeroAndCap ==
  \A p \in AllEdges(g) :
    LET e == At(g, p[1], p[2]) IN 0 <= e.flow /\ e.flow <= e.cap

\* C2 amended: flow <= cap for every stored edge in every state, and the
\* lower bound of an edge's flow is minus the capacity of its paired edge:
\* 0 for a forward edge, -cap of the forward edge for a reverse edge.
C2_FlowWithinPairBounds ==
  \A p \in AllEdges(g) :
    LET e == At(g, p[1], p[2])
        r == At(g, e.v, e.rev)
    IN  -r.cap <= e.flow /\ e.flow <= e.cap

\* C2 witness: between the two updates of one edge of an augmentation, with
\* a reverse edge that carries negative flow.
C2_Witness ==
  /\ pc = "pushrev"
  /\ bottleneck >= 2
  /\ \E p \in AllEdges(g) : At(g, p[1], p[2]).cap = 0 /\ At(g, p[1], p[2]).flow < 0

\* C3: after each completed augmentation and after solve returns, the flow
\* into every node other than src and sink over forward edges equals the
\* flow out of it over forward edges.
C3_Conservation ==
  BetweenAugmentations => Conserved(FlowOf(g), NetOf(g))

\* C3 witness: solve has returned and an inner node passes on two units.
C3_Witness ==
  /\ pc = "done"
  /\ \E x \in Nodes : x # src /\ x # sink /\ Outflow(FlowOf(g), NetOf(g), x) >= 2

\* C4: the pair solve returns is (sum of flow * cost over the forward
\* edges, net flow leaving src).
C4_Totals ==
  pc = "done" =>
    /\ mincost = CostOf(FlowOf(g), NetOf(g))
    /\ maxflow = ValueOf(FlowOf(g), NetOf(g))

\* C4 witness: solve has returned after an augmentation of two units along
\* a path of non-zero cost.
C4_Witness ==
  pc = "done" /\ bottleneck >= 2 /\ dis[par[sink]] # 0 /\ mincost # 0

\* A path of edges with cap - flow > 0 from src to sink.
RECURSIVE Reach(_, _)
Reach(G, S) ==
  LET T == S \cup {At(G, p[1], p[2]).v :
                     p \in {q \in AllEdges(G) :
                              q[1] \in S /\ At(G, q[1], q[2]).cap - At(G, q[1], q[2]).flow > 0}}
  IN  IF T = S THEN S ELSE Reach(G, T)
ResidualPath(G) == sink \in Reach(G, {src})

\* C5: the loop of solve terminates, it ends exactly when spfa reports the
\* sink unreachable, and in the final state no path of edges with
\* cap - flow > 0 leads from src to sink.
C5_TerminatesAtMaxFlow ==
  /\ (pc = "spfa") ~> (pc = "done")
  /\ [][pc = "spfa" => ((pc' = "done") <=> (dis'[sink] = inf))]_vars
  /\ [](pc = "done" => ~ResidualPath(g))

\* C5 witness: solve has returned after at least two augmentations.
C5_Witness ==
  pc = "done" /\ maxflow >= 2 /\ bottleneck = 1

\* C6: the per-unit path cost dis[sink] of an iteration is never smaller
\* than that of the iteration before it.
C6_PathCostNonDecreasing ==
  [][(pc = "spfa" /\ maxflow > 0 /\ dis'[sink] # inf) => dis'[sink] >= dis[sink]]_vars

\* C6 witness: a later iteration has found a path that costs more per unit
\* than the average of the paths before it.
C6_Witness ==
  pc = "bottleneck" /\ maxflow > 0 /\ mincost < maxflow * dis[sink]
\* C7: a call of add_edge with a node index outside [0, nodes) or with a
\* negative capacity is rejected and leaves the graph as it was.
C7_InvalidCallRejected ==
  [][\A a \in IndexInputs, b \in IndexInputs, cap \in CapInputs,
        cost \in CostInputs, directed \in BOOLEAN :
       (StoreAddEdge(a, b, cap, cost, directed)
          /\ (a \notin Nodes \/ b \notin Nodes \/ cap < 0)) => g' = g]_vars

\* C9: after any sequence of add_edge calls with valid node indices, every
\* edge e = g[x][i] has at g[e.v][e.rev] an edge that points back to x,
\* whose rev is i and whose cost is -e.cost.
C9_MutualInverses ==
  (pc = "build" /\ \A p \in AllEdges(g) : At(g, p[1], p[2]).cap >= 0) =>
    \A p \in AllEdges(g) :
      LET e == At(g, p[1], p[2])
      IN  /\ e.v \in Nodes
          /\ e.rev < Len(g[e.v])
          /\ At(g, e.v, e.rev).v = p[1]
          /\ At(g, e.v, e.rev).rev = p[2]
          /\ At(g, e.v, e.rev).cost = -e.cost
\* C10: each augmentation of MIN_COST_MAX_FLOW::solve pushes minflow[t]
\* units and adds minflow[t] * dis[t] to the accumulated cost, also when
\* minflow[t] exceeds 1.
C10_AddsBottleneckTimesCost ==
  [][Accumulate1 => ans' = ans + minflow[sink] * dis1[sink]]_vars
\* The cost mcmf::solve returns on the network of the calls made so far.
BaselineCost == SolveLoop(BuiltBy(calls6), par, idx, 0, FALSE)
\* The cost mcmf::solve has accumulated when its next path costs >= 0.
BaselineNegativeCost == SolveLoop(BuiltBy(calls6), par, idx, 0, TRUE)
Returned6 == pc6 \in {"return79", "return83"}

\* A path of edges of e6 with capacity left from S to T.
RECURSIVE Reach6(_)
Reach6(R) ==
  LET R1 == R \cup {Elem(e6, i).to :
                      i \in {j \in 0 .. (Len(e6) - 1) :
                               Elem(e6, Xor1(j)).to \in R /\ Elem(e6, j).cap # 0}}
  IN  IF R1 = R THEN R ELSE Reach6(R1)
ResidualPath6 == sink \in Reach6({src})

====
